---------------------------- MODULE Spec2Model ----------------------------
(***************************************************************************)
(* Model of the query filter evaluator of the store crate                  *)
(* (crates/store/src/query/filter.rs): Store::filter, the boolean          *)
(* evaluator over a flattened filter stream, and Store::range_to_bitmap,   *)
(* the range scan that resolves a MatchValue leaf.                         *)
(*                                                                         *)
(* Bitmaps (RoaringBitmap) are finite sets of document ids; Option<T> is a *)
(* record [some, v]; byte strings are sequences of integers in 0..255.     *)
(***************************************************************************)
EXTENDS Integers, Sequences, FiniteSets, TLC

VARIABLES
    filters,      \* the Vec<Filter> handed to Store::filter
    universe,     \* the store's document_ids bitmap of the collection (Option)
    index,        \* the store's index key table (a set of byte strings)
    pc,           \* position of the evaluation: start, loop, done, error
    pos,          \* the peekable iterator: index of the next token
    state,        \* the current frame, State {op, bm}
    stack,        \* the Vec<State> of suspended frames
    not_mask,     \* the cached universe bitmap
    not_fetch,    \* whether not_mask has been fetched
    results,      \* ResultSet.results once returned (Option)
    calls,        \* history: storage calls issued, in order
    resolved,     \* history: positions of the leaf tokens resolved
    shorts,       \* history: positions after which the And short-circuit fired
    not_results,  \* history: number of results presented to a Not frame
    scan,         \* the locals of range_to_bitmap during a scan
    tasks         \* the evaluations in flight when several run at once

vars == <<filters, universe, index, pc, pos, state, stack, not_mask,
          not_fetch, results, calls, resolved, shorts, not_results, scan,
          tasks>>

----------------------------------------------------------------------------
\* F applied to the value of x, with x evaluated once
With(x, F(_)) == CHOOSE v \in {F(y) : y \in {x}} : TRUE

----------------------------------------------------------------------------
(* Option<RoaringBitmap> *)

None == [some |-> FALSE, v |-> {}]

Some(s) == [some |-> TRUE, v |-> s]

\* Option::unwrap_or_else(RoaringBitmap::new)
UnwrapOrNew(o) == IF o.some THEN o.v ELSE {}

\* the complement within the mask b in place of the symmetric difference
BitXorAsDifference(a, b) == b \ a

\* RoaringBitmap::bitxor_assign: symmetric difference
BitXor(a, b) == (a \ b) \cup (b \ a)

\* RoaringBitmap::bitand_assign
BitAnd(a, b) == a \cap b

\* RoaringBitmap::bitor_assign
BitOr(a, b) == a \cup b

----------------------------------------------------------------------------
(* Filter tokens *)

And == [t |-> "And"]

Or == [t |-> "Or"]

Not == [t |-> "Not"]

End == [t |-> "End"]

DocumentSet(s) == [t |-> "DocumentSet", set |-> s]

InBitmap(c) == [t |-> "InBitmap", class |-> c]

HasText(f, text, tokenize) ==
    [t |-> "HasText", field |-> f, text |-> text, tokenize |-> tokenize]

MatchValue(f, op, value) ==
    [t |-> "MatchValue", field |-> f, op |-> op, value |-> value]

ScopeOps == {"And", "Or", "Not"}

LeafKinds == {"MatchValue", "HasText", "InBitmap", "DocumentSet"}

\* impl From<Filter> for State
NewState(op) == [op |-> op, bm |-> None]

----------------------------------------------------------------------------
(* Key codec: account_id (u32, big endian), collection (u8), field (u8),   *)
(* the value bytes, document_id (u32, big endian).                         *)

U32_LEN == 4

\* A u32 is the record [hi, lo] of its two 16-bit halves (hi * 65536 + lo):
\* the integers of the model checker stop at 2^31 - 1.
U32(n) == [hi |-> n \div 65536, lo |-> n % 65536]

\* u32::MAX
U32Max == [hi |-> 65535, lo |-> 65535]

\* a document id below 2^31 as a number
U32ToNat(d) == d.hi * 65536 + d.lo

\* IndexKeyPrefix::len()
IndexKeyPrefixLen == U32_LEN + 2

\* u32::to_be_bytes
BE4(d) == << d.hi \div 256, d.hi % 256, d.lo \div 256, d.lo % 256 >>

\* key.deserialize_be_u32(at), `at` a 0-based offset with 4 bytes behind it
DeserializeBeU32(key, at) ==
    [hi |-> key[at + 1] * 256 + key[at + 2], lo |-> key[at + 3] * 256 + key[at + 4]]

IndexKey(account_id, collection, document_id, field, key) ==
    [account_id |-> account_id, collection |-> collection,
     document_id |-> document_id, field |-> field, key |-> key]

\* IndexKeyPrefix {account_id, collection, field}.serialize(0)
SerializePrefix(account_id, collection, field) ==
    BE4(U32(account_id)) \o << collection, field >>

\* IndexKey::serialize
Serialize(k) ==
    SerializePrefix(k.account_id, k.collection, k.field) \o k.key \o BE4(k.document_id)

\* slice::starts_with
StartsWith(key, prefix) ==
    /\ Len(key) >= Len(prefix)
    /\ \A i \in 1..Len(prefix) : key[i] = prefix[i]

\* Ord for [u8]: a < b in lexicographic byte order
LexLess(a, b) ==
    \E i \in 1..Len(b) :
        /\ \A j \in 1..(i - 1) : j <= Len(a) /\ a[j] = b[j]
        /\ (i > Len(a) \/ a[i] < b[i])

LexLessEq(a, b) == a = b \/ LexLess(a, b)

Operators == {"LowerThan", "LowerEqualThan", "GreaterThan", "GreaterEqualThan", "Equal"}

\* the comparison of a key's value bytes with the target (the callback's `matches`)
Matches(op, value, match_value) ==
    CASE op = "LowerThan" -> LexLess(value, match_value)
      [] op = "LowerEqualThan" -> LexLessEq(value, match_value)
      [] op = "GreaterThan" -> LexLess(match_value, value)
      [] op = "GreaterEqualThan" -> LexLessEq(match_value, value)
      [] op = "Equal" -> value = match_value

\* the scans whose end key holds `field + 1`, at the field where the u8
\* addition overflows
FieldOverflows(field, op) ==
    op \in {"GreaterThan", "GreaterEqualThan"} /\ field + 1 > 255

\* field + 1 on a u8, as a build without overflow checks computes it; a build
\* with overflow checks panics instead when FieldOverflows
FieldPlusOne(field) == (field + 1) % 256

\* the (begin, end) table of range_to_bitmap
RangeBounds(account_id, collection, field, match_value, op) ==
    CASE op = "LowerThan" ->
            [begin |-> IndexKey(account_id, collection, U32(0), field, << >>),
             end |-> IndexKey(account_id, collection, U32(0), field, match_value)]
      [] op = "LowerEqualThan" ->
            [begin |-> IndexKey(account_id, collection, U32(0), field, << >>),
             end |-> IndexKey(account_id, collection, U32Max, field, match_value)]
      [] op = "GreaterThan" ->
            [begin |-> IndexKey(account_id, collection, U32Max, field, match_value),
             end |-> IndexKey(account_id, collection, U32Max, FieldPlusOne(field), << >>)]
      [] op = "GreaterEqualThan" ->
            [begin |-> IndexKey(account_id, collection, U32(0), field, match_value),
             end |-> IndexKey(account_id, collection, U32Max, FieldPlusOne(field), << >>)]
      [] op = "Equal" ->
            [begin |-> IndexKey(account_id, collection, U32(0), field, match_value),
             end |-> IndexKey(account_id, collection, U32Max, field, match_value)]

\* the keys of the table inside the half-open range [begin, end)
InRange(key, begin, end) == LexLessEq(begin, key) /\ LexLess(key, end)

RECURSIVE Ascending(_)
\* the keys of a set in ascending byte order
Ascending(keys) ==
    IF keys = {} THEN << >>
    ELSE LET first == CHOOSE k \in keys : \A o \in keys : LexLessEq(k, o)
         IN << first >> \o Ascending(keys \ {first})

\* Store::iterate(IterateParams::new(begin, end).no_values().ascending(), ..):
\* the keys it hands to the callback, in order
IterateKeys(table, begin, end) ==
    Ascending({k \in table : InRange(k, Serialize(begin), Serialize(end))})

\* the value bytes of a key that holds the prefix and the document id
KeyValue(key) == SubSeq(key, IndexKeyPrefixLen + 1, Len(key) - U32_LEN)

\* the callback trusting the range: every key of the field delivered is a match
ScanKeyTrustingRange(sc, key, id_pos) ==
    IF IndexKeyPrefixLen > id_pos
    THEN [sc EXCEPT !.ctl = "error"]
    ELSE [sc EXCEPT !.bm = @ \cup {DeserializeBeU32(key, id_pos)},
                    !.hits = @ \cup {key}]

\* the callback passing over a key too short for a document id
ScanKeySkippingShortKeys(sc, key, id_pos) ==
    IF IndexKeyPrefixLen > id_pos
    THEN sc
    ELSE IF Matches(sc.op, KeyValue(key), sc.match_value)
    THEN [sc EXCEPT !.bm = @ \cup {DeserializeBeU32(key, id_pos)},
                    !.hits = @ \cup {key}]
    ELSE sc

\* the callback past its prefix test, id_pos = key.len() - U32_LEN
ScanKey(sc, key, id_pos) ==
    IF IndexKeyPrefixLen > id_pos
    THEN [sc EXCEPT !.ctl = "error"]
    ELSE IF Matches(sc.op, KeyValue(key), sc.match_value)
    THEN [sc EXCEPT !.bm = @ \cup {DeserializeBeU32(key, id_pos)},
                    !.hits = @ \cup {key}]
    ELSE sc

\* the scan callback of range_to_bitmap on one key, the bitmap so far in sc.bm
ScanCallback(sc, key) ==
    IF ~StartsWith(key, SerializePrefix(sc.account_id, sc.collection, sc.field))
    THEN [sc EXCEPT !.ctl = "stop"]
    ELSE ScanKey(sc, key, Len(key) - U32_LEN)

\* one step of the iteration: the next key goes to the callback
ScanStep(sc) ==
    [ScanCallback(sc, Head(sc.todo)) EXCEPT
        !.todo = Tail(sc.todo), !.seen = Append(sc.seen, Head(sc.todo))]

ScanActive(sc) == sc.ctl = "continue" /\ sc.todo # << >>

\* the locals of range_to_bitmap when the iteration over `keys` starts
ScanOver(keys, account_id, collection, field, match_value, op) ==
    [account_id |-> account_id, collection |-> collection, field |-> field,
     match_value |-> match_value, op |-> op, ctl |-> "continue",
     todo |-> keys, seen |-> << >>, bm |-> {}, hits |-> {}]

\* the keys of the table the iteration of (begin, end) delivers
RangeKeys(table, bounds) == IterateKeys(table, bounds.begin, bounds.end)

ScanStart(table, account_id, collection, field, match_value, op) ==
    With(RangeBounds(account_id, collection, field, match_value, op),
         LAMBDA b : ScanOver(RangeKeys(table, b),
                             account_id, collection, field, match_value, op))

RECURSIVE ScanRun(_)
ScanRun(sc) ==
    IF ScanActive(sc) THEN With(ScanStep(sc), LAMBDA n : ScanRun(n)) ELSE sc

\* what range_to_bitmap returns: [ok, bm], bm an Option
ScanReturn(sc) ==
    IF sc.ctl = "error" THEN [ok |-> FALSE, bm |-> None]
    ELSE [ok |-> TRUE, bm |-> IF sc.bm # {} THEN Some(sc.bm) ELSE None]

\* Store::range_to_bitmap
RangeToBitmap(table, account_id, collection, field, match_value, op) ==
    With(ScanStart(table, account_id, collection, field, match_value, op),
         LAMBDA sc : With(ScanRun(sc), LAMBDA end : ScanReturn(end)))

----------------------------------------------------------------------------
(* The storage collaborator: postings lookups. The table of postings is a  *)
(* fixture; the document_ids bitmap is the variable `universe`.            *)

\* the account and collection every evaluation of the model queries
Account == [account_id |-> 1, collection |-> 2]

\* the indexed field of the model's MatchValue leaves
IndexedField == [field |-> 7]

\* BitmapKey::document_ids / BitmapKey::text_token / BitmapKey {class, block_num: 0}
DocumentIdsKey == [kind |-> "document_ids"]

TextTokenKey(f, word) == [kind |-> "text_token", field |-> f, word |-> word]

ClassKey(class) == [kind |-> "class", class |-> class]

\* the postings the store holds, besides document_ids
StoredPostings ==
    {[key |-> ClassKey("seen"), bm |-> {1}],
     [key |-> TextTokenKey(IndexedField.field, << "hello" >>), bm |-> {1, 2}],
     [key |-> TextTokenKey(IndexedField.field, << "world" >>), bm |-> {2}]}

\* Store::get_bitmap
GetBitmap(key) ==
    IF key = DocumentIdsKey THEN universe
    ELSE IF \E p \in StoredPostings : p.key = key
         THEN Some((CHOOSE p \in StoredPostings : p.key = key).bm)
         ELSE None

RECURSIVE IntersectAll(_)
IntersectAll(bms) ==
    LET one == CHOOSE b \in bms : TRUE
    IN IF bms = {one} THEN one ELSE one \cap IntersectAll(bms \ {one})

\* None for the empty bitmap
NonEmpty(bm) == IF bm = {} THEN None ELSE Some(bm)

\* Store::get_bitmaps_intersection: None when a term has no postings, when
\* there is no term, or when the intersection is empty
GetBitmapsIntersection(keys) ==
    IF keys = {} \/ \E k \in keys : ~GetBitmap(k).some THEN None
    ELSE NonEmpty(IntersectAll({GetBitmap(k).v : k \in keys}))

\* WordTokenizer::new(&text, ..) collected into a HashSet: a text is a
\* sequence of words, a term a text (of one word when it comes from here)
Tokenize(text) == {<< text[i] >> : i \in DOMAIN text}

----------------------------------------------------------------------------
(* Store::filter. An evaluation is a record e of the local variables; each *)
(* part of the loop body is an operator on it.                             *)

\* the error of a failed storage call dropped: the loop goes on
AbortSwallowed(e) == e

\* the `?` on a failed storage call: filter returns the error
Abort(e) == [e EXCEPT !.pc = "error"]

\* a storage call issued while the token at `at` is processed
Await(e, call, at, ok) ==
    [e EXCEPT !.calls = Append(@, [call |-> call, at |-> at, ok |-> ok])]

\* Ok(ResultSet {results: state.bm.unwrap_or_else(RoaringBitmap::new)})
\* the result taken from the outermost frame, the initial And frame
ReturnOutermost(e) ==
    [e EXCEPT !.pc = "done",
              !.results = Some(UnwrapOrNew(IF e.stack = << >> THEN e.state.bm
                                           ELSE e.stack[1].bm))]

Return(e) == [e EXCEPT !.pc = "done", !.results = Some(UnwrapOrNew(e.state.bm))]

\* the bitmap of a scan as the evaluator holds it
ScanBitmap(r) ==
    [call |-> "iterate", ok |-> r.ok,
     bm |-> IF r.bm.some THEN Some({U32ToNat(d) : d \in r.bm.v}) ELSE None]

\* what the storage answers for a leaf token: [call, ok, bm]
LeafLookup(tok) ==
    CASE tok.t = "MatchValue" ->
            With(RangeToBitmap(index, Account.account_id, Account.collection,
                               tok.field, tok.value, tok.op),
                 LAMBDA r : ScanBitmap(r))
      [] tok.t = "HasText" /\ tok.tokenize ->
            [call |-> "get_bitmaps_intersection", ok |-> TRUE,
             bm |-> GetBitmapsIntersection(
                        {TextTokenKey(tok.field, w) : w \in Tokenize(tok.text)})]
      [] tok.t = "HasText" /\ ~tok.tokenize ->
            [call |-> "get_bitmap", ok |-> TRUE,
             bm |-> GetBitmap(TextTokenKey(tok.field, tok.text))]
      [] tok.t = "InBitmap" ->
            [call |-> "get_bitmap", ok |-> TRUE, bm |-> GetBitmap(ClassKey(tok.class))]

\* filters.next() handed out the token at e.pos
Advance(e) == [e EXCEPT !.pos = @ + 1]

\* a leaf that asks the storage (lines 70-104): r is the storage's answer
ResolveStored(e, r, ok) ==
    [ctl |-> IF ok THEN "value" ELSE "error",
     result |-> r.bm,
     e |-> [Await(Advance(e), r.call, e.pos, ok) EXCEPT !.resolved = @ \cup {e.pos}]]

\* the match passing over an End that has no frame to pop
ResolveTokenPastStrayEnd(e, tok, fail) ==
    CASE tok.t \in {"MatchValue", "HasText", "InBitmap"} ->
            With(LeafLookup(tok),
                 LAMBDA r : ResolveStored(e, r, r.ok /\ fail # "leaf"))
      [] tok.t = "DocumentSet" ->
            [ctl |-> "value", result |-> Some(tok.set),
             e |-> [Advance(e) EXCEPT !.resolved = @ \cup {e.pos}]]
      [] tok.t \in ScopeOps ->
            [ctl |-> "continue", result |-> None,
             e |-> [Advance(e) EXCEPT !.stack = Append(@, e.state),
                                      !.state = NewState(tok.t)]]
      [] tok.t = "End" ->
            IF e.stack # << >>
            THEN [ctl |-> "value", result |-> e.state.bm,
                  e |-> [Advance(e) EXCEPT !.state = e.stack[Len(e.stack)],
                                           !.stack = SubSeq(@, 1, Len(@) - 1)]]
            ELSE [ctl |-> "continue", result |-> None, e |-> Advance(e)]

\* the match on the token (lines 69-120): [ctl, result, e] with ctl one of
\* value (a result to combine), continue, break, error
ResolveToken(e, tok, fail) ==
    CASE tok.t \in {"MatchValue", "HasText", "InBitmap"} ->
            With(LeafLookup(tok),
                 LAMBDA r : ResolveStored(e, r, r.ok /\ fail # "leaf"))
      [] tok.t = "DocumentSet" ->
            [ctl |-> "value", result |-> Some(tok.set),
             e |-> [Advance(e) EXCEPT !.resolved = @ \cup {e.pos}]]
      [] tok.t \in ScopeOps ->
            [ctl |-> "continue", result |-> None,
             e |-> [Advance(e) EXCEPT !.stack = Append(@, e.state),
                                      !.state = NewState(tok.t)]]
      [] tok.t = "End" ->
            IF e.stack # << >>
            THEN [ctl |-> "value", result |-> e.state.bm,
                  e |-> [Advance(e) EXCEPT !.state = e.stack[Len(e.stack)],
                                           !.stack = SubSeq(@, 1, Len(@) - 1)]]
            ELSE [ctl |-> "break", result |-> None, e |-> Advance(e)]

Resolve(e, fail) == ResolveToken(e, e.filters[e.pos], fail)

\* the universe lookup of a Not frame, for the token at e.pos - 1
FetchUniverse(e, fail) ==
    IF fail = "mask"
    THEN Abort(Await(e, "document_ids", e.pos - 1, FALSE))
    ELSE [Await(e, "document_ids", e.pos - 1, TRUE) EXCEPT
              !.not_mask = UnwrapOrNew(GetBitmap(DocumentIdsKey)),
              !.not_fetch = TRUE]

\* a result reaches the combine of a Not frame
CountNotResult(e) ==
    [e EXCEPT !.not_results = @ + (IF e.state.op = "Not" THEN 1 ELSE 0)]

\* the universe fetched for every result of a Not frame
FetchNotMaskEveryTime(e, fail) ==
    IF e.state.op = "Not"
    THEN With(CountNotResult(e), LAMBDA n : FetchUniverse(n, fail))
    ELSE CountNotResult(e)

\* "Only fetch not mask if we need it" (lines 122-129)
FetchNotMask(e, fail) ==
    IF e.state.op = "Not" /\ ~e.not_fetch
    THEN With(CountNotResult(e), LAMBDA n : FetchUniverse(n, fail))
    ELSE CountNotResult(e)

\* the first result of a Not frame stored without its complement
CombinedNotUncomplemented(op, bm, result, mask) ==
    IF bm.some
    THEN CASE op = "And" ->
                 IF result.some THEN Some(BitAnd(bm.v, result.v)) ELSE Some({})
           [] op = "Or" ->
                 IF result.some THEN Some(BitOr(bm.v, result.v)) ELSE bm
           [] op = "Not" ->
                 IF result.some THEN Some(BitAnd(bm.v, BitXor(result.v, mask)))
                 ELSE bm
    ELSE IF result.some THEN result
    ELSE IF op = "Not" THEN Some(mask)
    ELSE Some({})

\* an Or frame whose accumulator stays unset when its first result is None
CombinedOrStaysUnset(op, bm, result, mask) ==
    IF bm.some
    THEN CASE op = "And" ->
                 IF result.some THEN Some(BitAnd(bm.v, result.v)) ELSE Some({})
           [] op = "Or" ->
                 IF result.some THEN Some(BitOr(bm.v, result.v)) ELSE bm
           [] op = "Not" ->
                 IF result.some THEN Some(BitAnd(bm.v, BitXor(result.v, mask)))
                 ELSE bm
    ELSE IF result.some
    THEN IF op = "Not" THEN Some(BitXor(result.v, mask)) ELSE result
    ELSE IF op = "Not" THEN Some(mask)
    ELSE IF op = "Or" THEN None
    ELSE Some({})

\* an And frame that keeps its accumulator when a result is None
CombinedAndKeepsOnNone(op, bm, result, mask) ==
    IF bm.some
    THEN CASE op = "And" ->
                 IF result.some THEN Some(BitAnd(bm.v, result.v)) ELSE bm
           [] op = "Or" ->
                 IF result.some THEN Some(BitOr(bm.v, result.v)) ELSE bm
           [] op = "Not" ->
                 IF result.some THEN Some(BitAnd(bm.v, BitXor(result.v, mask)))
                 ELSE bm
    ELSE IF result.some
    THEN IF op = "Not" THEN Some(BitXor(result.v, mask)) ELSE result
    ELSE IF op = "Not" THEN Some(mask)
    ELSE Some({})

\* "Apply logical operation" (lines 131-163): the new state.bm
Combined(op, bm, result, mask) ==
    IF bm.some
    THEN CASE op = "And" ->
                 IF result.some THEN Some(BitAnd(bm.v, result.v)) ELSE Some({})
           [] op = "Or" ->
                 IF result.some THEN Some(BitOr(bm.v, result.v)) ELSE bm
           [] op = "Not" ->
                 IF result.some THEN Some(BitAnd(bm.v, BitXor(result.v, mask)))
                 ELSE bm
    ELSE IF result.some
    THEN IF op = "Not" THEN Some(BitXor(result.v, mask)) ELSE result
    ELSE IF op = "Not" THEN Some(mask)
    ELSE Some({})

\* the combine doing nothing on an absent result
CombineSkippingNone(e, result) ==
    IF result.some
    THEN [e EXCEPT !.state.bm = Combined(e.state.op, e.state.bm, result, e.not_mask)]
    ELSE e

Combine(e, result) ==
    [e EXCEPT !.state.bm = Combined(e.state.op, e.state.bm, result, e.not_mask)]

\* the peek loop of the short-circuit: the first position from `from` on that
\* holds an End, or the end of the stream
SkipToEnd(fs, from) ==
    CHOOSE p \in from..(Len(fs) + 1) :
        /\ p = Len(fs) + 1 \/ fs[p].t = "End"
        /\ \A q \in from..(p - 1) : fs[q].t # "End"

\* "And short-circuit" (lines 165-174)
ShortCircuit(e) ==
    IF e.state.op # "And" THEN e
    ELSE IF ~e.state.bm.some THEN [e EXCEPT !.pc = "panic"]
    ELSE IF e.state.bm.v = {}
    THEN [e EXCEPT !.pos = SkipToEnd(e.filters, e.pos),
                   !.shorts = @ \cup {e.pos - 1}]
    ELSE e

\* the pass after the universe lookup: combine and short-circuit
AfterFetch(m, result) ==
    IF m.pc = "error" THEN m
    ELSE With(Combine(m, result), LAMBDA c : ShortCircuit(c))

\* the pass after the match on the token
AfterResolve(r, fail) ==
    CASE r.ctl = "error" -> Abort(r.e)
      [] r.ctl = "continue" -> r.e
      [] r.ctl = "break" -> Return(r.e)
      [] r.ctl = "value" ->
            With(FetchNotMask(r.e, fail), LAMBDA m : AfterFetch(m, r.result))

\* one pass of the while loop on the next token; `fail` names the storage
\* call that fails in it, if any
StepToken(e, fail) == With(Resolve(e, fail), LAMBDA r : AfterResolve(r, fail))

\* the pass reaches the universe lookup
NeedsUniverse(r) == r.ctl = "value" /\ r.e.state.op = "Not" /\ ~r.e.not_fetch

\* the storage calls of the pass that `fail` can name
CanFail(e, fail) ==
    CASE fail = "none" -> TRUE
      [] fail = "leaf" -> e.filters[e.pos].t \in {"MatchValue", "HasText", "InBitmap"}
      [] fail = "mask" -> With(Resolve(e, "none"), LAMBDA r : NeedsUniverse(r))

\* the locals of filter before the loop (lines 61-66)
Begin(fs) ==
    [filters |-> fs, pc |-> "loop", pos |-> 1, state |-> NewState("And"),
     stack |-> << >>, not_mask |-> {}, not_fetch |-> FALSE, results |-> None,
     calls |-> << >>, resolved |-> {}, shorts |-> {}, not_results |-> 0]

\* the empty filter list answered with "match nothing"
EmptyFiltersMatchNothing(e, fail) ==
    IF fail = "none"
    THEN [Await(e, "document_ids", 0, TRUE) EXCEPT !.pc = "done", !.results = Some({})]
    ELSE Abort(Await(e, "document_ids", 0, FALSE))

\* the empty filter list (lines 50-59)
EmptyFilters(e, fail) ==
    IF fail = "none"
    THEN [Await(e, "document_ids", 0, TRUE) EXCEPT
              !.pc = "done", !.results = Some(UnwrapOrNew(GetBitmap(DocumentIdsKey)))]
    ELSE Abort(Await(e, "document_ids", 0, FALSE))

RECURSIVE RunLoop(_)
\* the loop run to its end with no storage failure
RunLoop(e) ==
    IF e.pc # "loop" THEN e
    ELSE IF e.pos > Len(e.filters) THEN Return(e)
    ELSE With(StepToken(e, "none"), LAMBDA n : RunLoop(n))

\* Store::filter(account_id, collection, fs) with no storage failure: the
\* final evaluation record
Filter(fs) ==
    IF fs = << >> THEN EmptyFilters([Begin(fs) EXCEPT !.pc = "start"], "none")
    ELSE RunLoop(Begin(fs))

----------------------------------------------------------------------------
(* Inputs of the filter evaluation *)

MaxLen == 3

MaxWfLen == 8

MaxDoc == 3

MaxLeaves == 2

Docs == 1..MaxDoc

\* a document id no universe of the model holds
StrayDoc == MaxDoc + 1

SeqsUpTo(S, n) == UNION {[1..k -> S] : k \in 0..n}

\* the index of the evaluator's inputs: field 7 holds the values 1, 5, 10 of
\* the documents 1, 2, 3
FilterIndex ==
    {Serialize(IndexKey(Account.account_id, Account.collection, U32(1),
                        IndexedField.field, << 1 >>)),
     Serialize(IndexKey(Account.account_id, Account.collection, U32(2),
                        IndexedField.field, << 5 >>)),
     Serialize(IndexKey(Account.account_id, Account.collection, U32(3),
                        IndexedField.field, << 10 >>))}

ScopeTokens == {And, Or, Not}

\* every token kind, for the short streams (well-formed or not)
ShortTokens ==
    ScopeTokens \cup
    {End, DocumentSet({}), DocumentSet({1}), DocumentSet({1, 2}),
     InBitmap("seen"), InBitmap("absent"),
     HasText(IndexedField.field, << "hello", "world" >>, TRUE),
     HasText(IndexedField.field, << "hello" >>, FALSE),
     MatchValue(IndexedField.field, "Equal", << 5 >>)}

\* the tokens of the longer well-formed streams, which the caller builds
\* token by token
ForestTokens == ScopeTokens \cup {End, DocumentSet({}), InBitmap("seen")}

RECURSIVE OpenDepth(_, _)
\* the scopes the first n tokens leave open: -1 once an End had none to close
OpenDepth(fs, n) ==
    IF n = 0 THEN 0
    ELSE With(OpenDepth(fs, n - 1),
              LAMBDA d : IF d < 0 THEN -1
                         ELSE IF fs[n].t \in ScopeOps THEN d + 1
                         ELSE IF fs[n].t = "End" THEN d - 1
                         ELSE d)

\* every And, Or, Not has its End and every End its scope
WellFormed(fs) == OpenDepth(fs, Len(fs)) = 0

\* the leaves whose result is inside the universe u, a None leaf among them
LeavesInside(u) == {DocumentSet(s) : s \in SUBSET u} \cup {InBitmap("absent")}

\* leaves the store has nothing for: a class, a term, a tokenized text with
\* a term and a value without postings or entries
NoneLeaves ==
    {InBitmap("absent"),
     HasText(IndexedField.field, << "absent" >>, FALSE),
     HasText(IndexedField.field, << "hello", "absent" >>, TRUE),
     MatchValue(IndexedField.field, "Equal", << 9 >>)}

\* keys of the indexed field cut short of the 4 bytes of a document id
ShortKeys ==
    {SerializePrefix(Account.account_id, Account.collection, IndexedField.field)
        \o w : w \in {<< >>, << 1 >>, << 5 >>, << 5, 5 >>, << 5, 0, 0 >>, << 10, 0, 0 >>}}

\* the range leaves of the evaluations over an index with a short key
ScanTokens ==
    {MatchValue(IndexedField.field, op, v) :
        op \in Operators, v \in {<< 1 >>, << 5 >>, << 10 >>}}

\* a range leaf alone, in an Or before another leaf, and in a Not, over the
\* index with one short key more
CorruptInputs ==
    \E m \in ScanTokens, k \in ShortKeys :
        /\ filters \in {<< m >>, << Or, m, DocumentSet({1}), End >>, << Not, m, End >>}
        /\ index = FilterIndex \cup {k}
        /\ universe = Some(Docs)

\* the examples of the specification
SpecExamples ==
    {[filters |-> << >>, universe |-> Some({1, 2, 3})],
     [filters |-> << Not, DocumentSet({1, 2}), End >>,
      universe |-> Some({1, 2, 3, 4, 5})],
     [filters |-> << Or, DocumentSet({1}), And, DocumentSet({2, 3}),
                     DocumentSet({3, 4}), End, End >>,
      universe |-> Some({1, 2, 3, 4, 5})]}

\* the inputs Store::filter is called with directly
FilterInputs ==
    \* short streams of every token
    \/ \E k \in 0..MaxLen : \E fs \in [1..k -> ShortTokens] :
          /\ filters = fs
          /\ universe \in {None, Some(Docs)}
    \* [Not, leaf1, .., leafn, End] over every universe
    \/ \E u \in SUBSET Docs : \E n \in 0..MaxLeaves :
          \E ls \in [1..n -> LeavesInside(u)] :
             /\ filters = << Not >> \o ls \o << End >>
             /\ universe = Some(u)
    \* [Not, Not, DocumentSet(S), End, End] over every universe
    \/ \E s \in SUBSET (1..StrayDoc) :
          /\ filters = << Not, Not, DocumentSet(s), End, End >>
          /\ universe \in {None} \cup {Some(x) : x \in SUBSET Docs}
    \* [Or, leaf1, .., leafn, End] of leaves that resolve to None
    \/ \E n \in 1..MaxLeaves : \E ls \in [1..n -> NoneLeaves] :
          /\ filters = << Or >> \o ls \o << End >>
          /\ universe \in {None, Some(Docs)}
    \* a scope without a child closing inside a scope that holds a document
    \* set or nothing: [P, C, End, End] and [P, DocumentSet(S), C, End, End]
    \/ \E p \in ScopeTokens, c \in ScopeTokens :
          \E ls \in {<< >>} \cup {<< DocumentSet(s) >> : s \in SUBSET (1..StrayDoc)} :
             /\ filters = << p >> \o ls \o << c, End, End >>
             /\ universe \in {None, Some(Docs)}
    \/ \E inp \in SpecExamples :
          /\ filters = inp.filters
          /\ universe = inp.universe

\* no scan is running
IdleScan ==
    [account_id |-> Account.account_id, collection |-> Account.collection,
     field |-> IndexedField.field, match_value |-> << >>, op |-> "Equal",
     ctl |-> "idle", todo |-> << >>, seen |-> << >>, bm |-> {}, hits |-> {}]

----------------------------------------------------------------------------
(* The evaluation as a state machine *)

\* the evaluation record of the current state
Cur ==
    [filters |-> filters, pc |-> pc, pos |-> pos, state |-> state,
     stack |-> stack, not_mask |-> not_mask, not_fetch |-> not_fetch,
     results |-> results, calls |-> calls, resolved |-> resolved,
     shorts |-> shorts, not_results |-> not_results]

\* the evaluation writing the universe it fetched back to the store
BecomeWritingBack(e) ==
    /\ pc' = e.pc
    /\ pos' = e.pos
    /\ state' = e.state
    /\ stack' = e.stack
    /\ not_mask' = e.not_mask
    /\ not_fetch' = e.not_fetch
    /\ results' = e.results
    /\ calls' = e.calls
    /\ resolved' = e.resolved
    /\ shorts' = e.shorts
    /\ not_results' = e.not_results
    /\ universe' = IF e.not_fetch THEN Some(e.not_mask) ELSE universe
    /\ UNCHANGED <<filters, index, scan, tasks>>

Become(e) ==
    /\ pc' = e.pc
    /\ pos' = e.pos
    /\ state' = e.state
    /\ stack' = e.stack
    /\ not_mask' = e.not_mask
    /\ not_fetch' = e.not_fetch
    /\ results' = e.results
    /\ calls' = e.calls
    /\ resolved' = e.resolved
    /\ shorts' = e.shorts
    /\ not_results' = e.not_results
    /\ UNCHANGED <<filters, universe, index, scan, tasks>>

Init ==
    /\ \/ /\ FilterInputs
          /\ index = FilterIndex
          /\ pc = "start"
       \/ /\ CorruptInputs
          /\ pc = "start"
       \/ /\ filters = << >>
          /\ universe = Some(Docs)
          /\ index = FilterIndex
          /\ pc = "input"
    /\ pos = 1
    /\ state = NewState("And")
    /\ stack = << >>
    /\ not_mask = {}
    /\ not_fetch = FALSE
    /\ results = None
    /\ calls = << >>
    /\ resolved = {}
    /\ shorts = {}
    /\ not_results = 0
    /\ scan = IdleScan
    /\ tasks = << >>

\* a list the caller can still close within MaxWfLen tokens
Closable(fs) ==
    /\ OpenDepth(fs, Len(fs)) >= 0
    /\ Len(fs) + OpenDepth(fs, Len(fs)) <= MaxWfLen

\* the caller extends the filter list it is building by one token
CallerPush ==
    /\ pc = "input"
    /\ \E tok \in ForestTokens :
          /\ Closable(Append(filters, tok))
          /\ filters' = Append(filters, tok)
    /\ UNCHANGED <<universe, index, pc, pos, state, stack, not_mask, not_fetch,
                   results, calls, resolved, shorts, not_results, scan,
                   tasks>>

\* the caller hands the well-formed list it built to Store::filter
CallerCall ==
    /\ pc = "input"
    /\ filters # << >>
    /\ WellFormed(filters)
    /\ pc' = "start"
    /\ UNCHANGED <<filters, universe, index, pos, state, stack, not_mask,
                   not_fetch, results, calls, resolved, shorts, not_results, scan,
                   tasks>>

\* filters.is_empty(): the universe lookup answers, or fails
FilterEmpty ==
    /\ pc = "start"
    /\ filters = << >>
    /\ \E fail \in {"none", "lookup"} :
          \E n \in {EmptyFilters(Cur, fail)} : Become(n)

\* the locals are set up and the loop entered
FilterBegin ==
    /\ pc = "start"
    /\ filters # << >>
    /\ \E n \in {Begin(filters)} : Become(n)

\* the loop holds a next token, of one of these kinds
AtToken(kinds) ==
    /\ pc = "loop"
    /\ pos <= Len(filters)
    /\ filters[pos].t \in kinds

\* a pass of the loop on a MatchValue token: the range scan and the combine
PassMatchValue ==
    /\ AtToken({"MatchValue"})
    /\ \E fail \in {"none", "leaf", "mask"} :
          \E e \in {Cur} :
              /\ CanFail(e, fail)
              /\ \E n \in {StepToken(e, fail)} : Become(n)

\* a pass of the loop on a HasText token: the postings lookup and the combine
PassHasText ==
    /\ AtToken({"HasText"})
    /\ \E fail \in {"none", "leaf", "mask"} :
          \E e \in {Cur} :
              /\ CanFail(e, fail)
              /\ \E n \in {StepToken(e, fail)} : Become(n)

\* a pass of the loop on an InBitmap token: the lookup and the combine
PassInBitmap ==
    /\ AtToken({"InBitmap"})
    /\ \E fail \in {"none", "leaf", "mask"} :
          \E e \in {Cur} :
              /\ CanFail(e, fail)
              /\ \E n \in {StepToken(e, fail)} : Become(n)

\* a pass of the loop on a DocumentSet token: the combine
PassDocumentSet ==
    /\ AtToken({"DocumentSet"})
    /\ \E fail \in {"none", "mask"} :
          \E e \in {Cur} :
              /\ CanFail(e, fail)
              /\ \E n \in {StepToken(e, fail)} : Become(n)

\* a pass of the loop on And, Or, Not: the frame is pushed
PassScope ==
    /\ AtToken(ScopeOps)
    /\ \E n \in {StepToken(Cur, "none")} : Become(n)

\* a pass of the loop on End: the frame is popped and combined, or the loop
\* is left
PassEnd ==
    /\ AtToken({"End"})
    /\ \E fail \in {"none", "mask"} :
          \E e \in {Cur} :
              /\ CanFail(e, fail)
              /\ \E n \in {StepToken(e, fail)} : Become(n)

\* filters.next() is None: the loop ends and the ResultSet is returned
FilterReturn ==
    /\ pc = "loop"
    /\ pos > Len(filters)
    /\ \E n \in {Return(Cur)} : Become(n)

Next ==
    \/ CallerPush
    \/ CallerCall
    \/ FilterEmpty
    \/ FilterBegin
    \/ PassMatchValue
    \/ PassHasText
    \/ PassInBitmap
    \/ PassDocumentSet
    \/ PassScope
    \/ PassEnd
    \/ FilterReturn

Spec == Init /\ [][Next]_vars

----------------------------------------------------------------------------
(* The reference evaluation of a filter stream as a tree *)

\* the universe of the collection, empty when the store holds none
Universe == UnwrapOrNew(universe)

\* the set a leaf token stands for, a None leaf counting as the empty set
LeafSet(tok) ==
    IF tok.t = "DocumentSet" THEN tok.set ELSE UnwrapOrNew(LeafLookup(tok).bm)

\* the value of a scope with the children values kids
RefClose(op, kids) ==
    CASE op = "And" -> IF kids = {} THEN Universe ELSE IntersectAll(kids)
      [] op = "Or" -> UNION kids
      [] op = "Not" -> Universe \ UNION kids

RECURSIVE RefItems(_, _, _, _)
\* the children of a scope from position i on: [v, next], the value of the
\* scope and the position behind its End
RefItems(fs, i, op, kids) ==
    IF i > Len(fs) THEN [v |-> RefClose(op, kids), next |-> i]
    ELSE IF fs[i].t = "End" THEN [v |-> RefClose(op, kids), next |-> i + 1]
    ELSE IF fs[i].t \in ScopeOps
    THEN With(RefItems(fs, i + 1, fs[i].t, {}),
              LAMBDA r : RefItems(fs, r.next, op, kids \cup {r.v}))
    ELSE RefItems(fs, i + 1, op, kids \cup {LeafSet(fs[i])})

\* the top level is an implicit And
RefEval(fs) == RefItems(fs, 1, "And", {}).v

\* every And and every Not scope has a child, and so has the top level
EveryScopeHasAChild(fs) ==
    /\ fs # << >>
    /\ \A i \in 1..(Len(fs) - 1) : fs[i].t \in {"And", "Not"} => fs[i + 1].t # "End"

\* every leaf stands for a set of documents of the universe
LeavesInUniverse(fs) ==
    \A i \in 1..Len(fs) : fs[i].t \in LeafKinds => LeafSet(fs[i]) \subseteq Universe

\* the evaluation returned a ResultSet
Returned == pc = "done"

----------------------------------------------------------------------------
(* range_to_bitmap on its own: one call over a table of index keys, the    *)
(* iteration one key at a time                                             *)

\* the longest indexed value and target, in bytes
MaxValueLen == 1

\* the most keys a table of the model holds besides the example table
MaxEntries == 2

\* the bytes values and targets are made of
ValueBytes == {1, 5}

\* the indexed values and the targets of a scan
Values == SeqsUpTo(ValueBytes, MaxValueLen)

\* the document ids of the entries: the lowest and the highest u32
ScanDocs == {U32(0), U32Max}

\* the highest field identifier, u8::MAX
MaxField == 255

\* the fields scanned: the indexed field of the example and the highest one
ScanFields == {IndexedField.field, MaxField}

\* a field other than f: the next one, the lowest one after the highest
OtherField(f) == IF f < MaxField THEN f + 1 ELSE 0

\* the keys tables are drawn from: every (value, document id) under the
\* field, an entry of another field, and a key too short for a document id
KeyPool(field) ==
    {Serialize(IndexKey(Account.account_id, Account.collection, d,
                        field, v)) : v \in Values, d \in ScanDocs}
    \cup {Serialize(IndexKey(Account.account_id, Account.collection, U32(0),
                             OtherField(field), << >>)),
          SerializePrefix(Account.account_id, Account.collection,
                          field) \o << 5, 5 >>}

RECURSIVE SubsetsUpTo(_, _)
\* the subsets of S of at most n elements
SubsetsUpTo(S, n) ==
    IF n = 0 THEN {{}}
    ELSE With(SubsetsUpTo(S, n - 1),
              LAMBDA smaller : smaller \cup {t \cup {k} : t \in smaller, k \in S})

Tables(field) == SubsetsUpTo(KeyPool(field), MaxEntries) \cup {FilterIndex}

\* a call of range_to_bitmap on some table, operator and target
RangeInit ==
    /\ \E field \in ScanFields, op \in Operators, match_value \in Values :
          /\ index \in Tables(field)
          /\ scan = [IdleScan EXCEPT !.field = field, !.op = op,
                                     !.match_value = match_value]
    /\ pc = "range"
    /\ filters = << >>
    /\ universe = None
    /\ pos = 1
    /\ state = NewState("And")
    /\ stack = << >>
    /\ not_mask = {}
    /\ not_fetch = FALSE
    /\ results = None
    /\ calls = << >>
    /\ resolved = {}
    /\ shorts = {}
    /\ not_results = 0
    /\ tasks = << >>

\* lines 192-284: the bounds, the empty bitmap, the prefix, the iteration opened
RangeCall ==
    /\ pc = "range"
    /\ pc' = "scanning"
    /\ scan' = ScanStart(index, scan.account_id, scan.collection, scan.field,
                         scan.match_value, scan.op)
    /\ UNCHANGED <<filters, universe, index, pos, state, stack, not_mask,
                   not_fetch, results, calls, resolved, shorts, not_results,
                   tasks>>

\* lines 237 and 253 in a build with overflow checks: `field + 1` panics on
\* the highest field, "attempt to add with overflow"; the build without them
\* goes on with the wrapped field (RangeCall)
RangeOverflow ==
    /\ pc = "range"
    /\ FieldOverflows(scan.field, scan.op)
    /\ pc' = "panic"
    /\ UNCHANGED <<filters, universe, index, pos, state, stack, not_mask,
                   not_fetch, results, calls, resolved, shorts, not_results,
                   scan, tasks>>

\* lines 285-308: the iteration hands the next key to the callback
RangeCallback ==
    /\ pc = "scanning"
    /\ ScanActive(scan)
    /\ scan' = ScanStep(scan)
    /\ UNCHANGED <<filters, universe, index, pc, pos, state, stack, not_mask,
                   not_fetch, results, calls, resolved, shorts, not_results,
                   tasks>>

\* lines 310-316: the iteration is over, range_to_bitmap returns
RangeReturn ==
    /\ pc = "scanning"
    /\ ~ScanActive(scan)
    /\ \E r \in {ScanReturn(scan)} :
          /\ pc' = IF r.ok THEN "ranged" ELSE "error"
          /\ results' = r.bm
    /\ UNCHANGED <<filters, universe, index, pos, state, stack, not_mask,
                   not_fetch, calls, resolved, shorts, not_results, scan,
                   tasks>>

RangeNext ==
    \/ RangeCall
    \/ RangeOverflow
    \/ RangeCallback
    \/ RangeReturn

RangeSpec == RangeInit /\ [][RangeNext]_vars

----------------------------------------------------------------------------
(* Two evaluations at once over one unchanging store. Each is a task: its  *)
(* evaluation record and, between the leaf lookup of a pass and the rest   *)
(* of the pass, the result of the lookup.                                  *)

Tasks == {1, 2}

\* the frame and the stack of suspended frames held in common by the evaluations
ResumeOnSharedFrame(e, other) ==
    [e EXCEPT !.state = other.state, !.stack = other.stack]

\* the locals an evaluation finds when it resumes after a suspension: `let
\* mut` locals of its own call (lines 61-66), whatever the other call did
Resume(e, other) == e

\* the filter lists of the concurrent evaluations
TaskFilters ==
    {<< >>,
     << Not, InBitmap("seen"), End >>,
     << Not, Not, DocumentSet({1, 2}), End, End >>,
     << Or, MatchValue(IndexedField.field, "GreaterEqualThan", << 5 >>),
        HasText(IndexedField.field, << "hello" >>, FALSE), End >>,
     << InBitmap("absent"), DocumentSet({1}) >>,
     << And, InBitmap("seen"), Not, DocumentSet({1}), End, End >>,
     << Or, DocumentSet({1}), And, DocumentSet({2, 3}), DocumentSet({3, 4}),
        End, End >>}

\* a task between passes, its evaluation record e
Idle(e) == [pending |-> FALSE, r |-> [ctl |-> "continue", result |-> None, e |-> e]]

\* a call of Store::filter not yet started
NewTask(fs) == Idle([Begin(fs) EXCEPT !.pc = "start"])

\* the evaluation record of the other task
Other(t) == tasks[3 - t].r.e

ConcInit ==
    /\ tasks \in [Tasks -> {NewTask(fs) : fs \in TaskFilters}]
    /\ universe = Some(Docs)
    /\ index = FilterIndex
    /\ pc = "tasks"
    /\ filters = << >>
    /\ pos = 1
    /\ state = NewState("And")
    /\ stack = << >>
    /\ not_mask = {}
    /\ not_fetch = FALSE
    /\ results = None
    /\ calls = << >>
    /\ resolved = {}
    /\ shorts = {}
    /\ not_results = 0
    /\ scan = IdleScan

TaskBecome(t, task) ==
    /\ tasks' = [tasks EXCEPT ![t] = task]
    /\ UNCHANGED <<filters, universe, index, pc, pos, state, stack, not_mask,
                   not_fetch, results, calls, resolved, shorts, not_results, scan>>

\* lines 50-66: the call starts; an empty filter list is answered here
TaskCall(t) ==
    /\ tasks[t].r.e.pc = "start"
    /\ \E e \in {tasks[t].r.e} :
          TaskBecome(t, Idle(IF e.filters = << >>
                             THEN EmptyFilters(e, "none")
                             ELSE Begin(e.filters)))

\* lines 68-120: the next token is matched, up to the answer of its lookup
TaskResolve(t) ==
    /\ ~tasks[t].pending
    /\ tasks[t].r.e.pc = "loop"
    /\ tasks[t].r.e.pos <= Len(tasks[t].r.e.filters)
    /\ \E r \in {Resolve(Resume(tasks[t].r.e, Other(t)), "none")} :
          TaskBecome(t, [pending |-> TRUE, r |-> r])

\* lines 122-174: the rest of the pass, the universe lookup included
TaskCombine(t) ==
    /\ tasks[t].pending
    /\ \E r \in {[tasks[t].r EXCEPT !.e = Resume(@, Other(t))]} :
          TaskBecome(t, Idle(AfterResolve(r, "none")))

\* lines 177-181: the stream is exhausted
TaskReturn(t) ==
    /\ ~tasks[t].pending
    /\ tasks[t].r.e.pc = "loop"
    /\ tasks[t].r.e.pos > Len(tasks[t].r.e.filters)
    /\ TaskBecome(t, Idle(Return(tasks[t].r.e)))

ConcNext ==
    \/ \E t \in Tasks : TaskCall(t)
    \/ \E t \in Tasks : TaskResolve(t)
    \/ \E t \in Tasks : TaskCombine(t)
    \/ \E t \in Tasks : TaskReturn(t)

ConcSpec == ConcInit /\ [][ConcNext]_vars

----------------------------------------------------------------------------
(* The And scope a short-circuit belongs to *)

RECURSIVE Closing(_, _, _)
\* the position of the End that closes the scope open at position i (d scopes
\* opened since), or Len(fs) + 1 for the top level
Closing(fs, i, d) ==
    IF i > Len(fs) THEN i
    ELSE IF fs[i].t = "End" THEN (IF d = 0 THEN i ELSE Closing(fs, i + 1, d - 1))
    ELSE IF fs[i].t \in ScopeOps THEN Closing(fs, i + 1, d + 1)
    ELSE Closing(fs, i + 1, d)

\* the first token after which an And accumulator was empty
FirstShort == CHOOSE p \in shorts : \A o \in shorts : p <= o

\* the positions of the rest of the And scope of FirstShort
RestOfScope == (FirstShort + 1)..(Closing(filters, FirstShort + 1, 0) - 1)

RECURSIVE WithoutLeaves(_, _, _)
\* fs from position i on, without the leaf tokens at the positions drop
WithoutLeaves(fs, i, drop) ==
    IF i > Len(fs) THEN << >>
    ELSE (IF i \in drop /\ fs[i].t \in LeafKinds THEN << >> ELSE << fs[i] >>)
         \o WithoutLeaves(fs, i + 1, drop)

\* the number of universe lookups issued
UniverseLookups == Cardinality({i \in 1..Len(calls) : calls[i].call = "document_ids"})

\* [Not, leaf1, .., leafn, End]
IsNotOfLeaves(fs) ==
    /\ Len(fs) >= 2
    /\ fs[1] = Not
    /\ fs[Len(fs)] = End
    /\ \A i \in 2..(Len(fs) - 1) : fs[i].t \in LeafKinds

\* [Not, Not, DocumentSet(S), End, End]
IsDoubleNegation(fs) ==
    /\ Len(fs) = 5
    /\ fs[1] = Not /\ fs[2] = Not
    /\ fs[3].t = "DocumentSet"
    /\ fs[4] = End /\ fs[5] = End

----------------------------------------------------------------------------
(* Claims *)

\* C1: for every well-formed filter stream, Store::filter returns the set the
\* reference evaluator gives for the tree (top level an implicit And, And the
\* intersection, Or the union, Not the universe minus every child, a None leaf
\* the empty set). Stated on the streams whose And and Not scopes all have a
\* child and whose leaves all lie inside the universe.
C1_FilterIsReferenceEvaluation ==
    (Returned /\ WellFormed(filters) /\ EveryScopeHasAChild(filters)
        /\ LeavesInUniverse(filters))
    => results.v = RefEval(filters)

\* C2: And short-circuit equivalence: deleting the leaves that follow, in the
\* same And scope, the point where its accumulator first becomes empty does
\* not change the result of Store::filter. Stated for the first such point of
\* a well-formed stream.
C2_ShortCircuitEquivalence ==
    (Returned /\ WellFormed(filters) /\ shorts # {})
    => Filter(WithoutLeaves(filters, 1, RestOfScope)).results = results

\* C3: once the accumulator of an And scope is empty, no leaf token of the
\* rest of that scope (nested scopes included) is resolved and no storage call
\* is issued for one. Stated for the first such point of a well-formed stream.
C3_NoResolutionInShortCircuitedScope ==
    (WellFormed(filters) /\ shorts # {})
    => /\ resolved \cap RestOfScope = {}
       /\ \A i \in 1..Len(calls) :
              calls[i].call # "document_ids" => calls[i].at \notin RestOfScope

\* C5 as stated: for every universe U and every list of leaves with results
\* S1..Sn inside U, [Not, leaf1, .., leafn, End] yields U minus their union.
C5_NotOfAnyLeafList ==
    (Returned /\ IsNotOfLeaves(filters) /\ LeavesInUniverse(filters))
    => results.v =
         Universe \ UNION {LeafSet(filters[i]) : i \in 2..(Len(filters) - 1)}

\* C5 amended: the same for every list of at least one leaf.
C5_NotOfLeaves ==
    (Returned /\ IsNotOfLeaves(filters) /\ Len(filters) >= 3
        /\ LeavesInUniverse(filters))
    => results.v =
         Universe \ UNION {LeafSet(filters[i]) : i \in 2..(Len(filters) - 1)}

\* C5 witness: [Not, DocumentSet({1,2}), End] over {1,2,3,4,5} gave {3,4,5}
C5_Witness ==
    /\ Returned
    /\ filters = << Not, DocumentSet({1, 2}), End >>
    /\ universe = Some({1, 2, 3, 4, 5})
    /\ results = Some({3, 4, 5})

\* C6: double negation: for every document set S and universe U,
\* [Not, Not, DocumentSet(S), End, End] yields S.
C6_DoubleNegation ==
    (Returned /\ IsDoubleNegation(filters)) => results.v = filters[3].set

\* C6 witness: a set with a document outside the universe came back whole
C6_Witness ==
    /\ Returned
    /\ filters = << Not, Not, DocumentSet({1, StrayDoc}), End, End >>
    /\ universe = Some({1, 2})
    /\ results = Some({1, StrayDoc})

\* C7: when a storage call fails, Store::filter returns the error: the failed
\* call is the last call issued, no token behind the failing one is resolved
\* and no ResultSet is returned.
C7_FailureAborts ==
    \A i \in 1..Len(calls) :
        ~calls[i].ok
        => /\ i = Len(calls)
           /\ pc = "error"
           /\ ~results.some
           /\ \A p \in resolved : p <= calls[i].at

\* C7 witness: the universe lookup failed after a leaf lookup had answered,
\* with tokens still to come
C7_Witness ==
    /\ pc = "error"
    /\ Len(calls) = 2
    /\ calls[1].ok
    /\ calls[2] = [call |-> "document_ids", at |-> 2, ok |-> FALSE]
    /\ pos <= Len(filters)

\* the key prefix of the scan
ScanPrefix == SerializePrefix(scan.account_id, scan.collection, scan.field)

\* the entries (value, document id) the table stores under the field of the scan
FieldEntries ==
    {k \in index : StartsWith(k, ScanPrefix) /\ Len(k) >= IndexKeyPrefixLen + U32_LEN}

\* the document ids whose indexed value satisfies the operator against the target
TrueMatches ==
    {DeserializeBeU32(k, Len(k) - U32_LEN) :
        k \in {e \in FieldEntries : Matches(scan.op, KeyValue(e), scan.match_value)}}

\* C8: range scan exactness: for every operator, target and set of entries
\* under the field (values of any length, document ids up to u32::MAX),
\* range_to_bitmap returns exactly the ids whose value satisfies the operator.
C8_RangeScanExact ==
    pc = "ranged" => UnwrapOrNew(results) = TrueMatches

\* C9: range scan soundness: every id range_to_bitmap inserts comes from a key
\* that starts with the (account, collection, field) prefix and whose value
\* bytes satisfy the operator against the target.
C9_RangeScanSound ==
    /\ \A k \in scan.hits :
          /\ StartsWith(k, ScanPrefix)
          /\ Matches(scan.op, KeyValue(k), scan.match_value)
    /\ scan.bm = {DeserializeBeU32(k, Len(k) - U32_LEN) : k \in scan.hits}
    /\ pc = "ranged" => UnwrapOrNew(results) = scan.bm

\* C9 witness: GreaterThan(1) was handed the key of the value 1 (the begin
\* key itself) and then the key of the value 5, and returned the id of the
\* second only
C9_Witness ==
    /\ pc = "ranged"
    /\ scan.op = "GreaterThan"
    /\ scan.match_value = << 1 >>
    /\ Len(scan.seen) = 2
    /\ KeyValue(scan.seen[1]) = << 1 >>
    /\ KeyValue(scan.seen[2]) = << 5 >>
    /\ results = Some({U32(0)})

\* C10: in one evaluation the universe bitmap is looked up at most once, and
\* not at all when no result reaches a Not frame (a non-empty stream without
\* a Not token, or one whose Not scopes are all skipped).
C10_UniverseLookedUpAtMostOnce ==
    /\ UniverseLookups <= 1
    /\ (filters # << >> /\ not_results = 0) => UniverseLookups = 0
    /\ (filters # << >> /\ \A i \in 1..Len(filters) : filters[i] # Not)
           => UniverseLookups = 0

\* C10 witness: three results reached Not frames, two of them nested, with
\* one lookup
C10_Witness ==
    /\ Returned
    /\ not_results >= 3
    /\ \E i \in 1..(Len(filters) - 1) : filters[i] = Not /\ filters[i + 1] = Not
    /\ UniverseLookups = 1

\* C4: with an empty filter sequence Store::filter returns the universe bitmap
\* of the collection, and the empty set only when the store holds none.
C4_EmptyFiltersReturnUniverse ==
    (Returned /\ filters = << >>)
    => /\ results.some
       /\ universe.some => results.v = universe.v
       /\ ~universe.some => results.v = {}

\* C4 witness: the collection {1, 2, 3} is returned for the empty sequence
C4_Witness ==
    /\ Returned
    /\ filters = << >>
    /\ universe = Some({1, 2, 3})
    /\ results = Some({1, 2, 3})

\* a leaf token the storage answers with None
ResolvesToNone(tok) ==
    /\ tok.t \in {"MatchValue", "HasText", "InBitmap"}
    /\ ~LeafLookup(tok).bm.some

\* [Or, leaf1, .., leafn, End] with n >= 1 leaves that all resolve to None
IsOrOfNoneLeaves(fs) ==
    /\ Len(fs) >= 3
    /\ fs[1] = Or
    /\ fs[Len(fs)] = End
    /\ \A i \in 2..(Len(fs) - 1) : ResolvesToNone(fs[i])

\* the evaluation is about to take the End of an Or scope opened at k whose
\* children, all of them resolved, are leaves that resolved to None
AtEndOfNoneOr(k) ==
    /\ pc = "loop"
    /\ pos <= Len(filters)
    /\ k < pos - 1
    /\ filters[k] = Or
    /\ filters[pos] = End
    /\ \A i \in (k + 1)..(pos - 1) : i \in resolved /\ ResolvesToNone(filters[i])

\* C11: an Or scope all of whose leaves (one at least) resolve to None holds
\* the empty bitmap when it closes; the evaluation of such a stream ends with
\* a ResultSet, the empty one, and no error unless a storage call failed.
C11_OrOfNoneLeavesIsEmpty ==
    /\ \A k \in 1..Len(filters) :
          AtEndOfNoneOr(k) => state = [op |-> "Or", bm |-> Some({})]
    /\ IsOrOfNoneLeaves(filters)
          => /\ pc = "error" => ~calls[Len(calls)].ok
             /\ pc # "panic"
             /\ Returned => results = Some({})

\* C11 witness: two leaves without postings inside an Or, the End next
C11_Witness ==
    /\ AtEndOfNoneOr(1)
    /\ pos = 4
    /\ filters[2] = InBitmap("absent")
    /\ filters[3] = MatchValue(IndexedField.field, "Equal", << 9 >>)
    /\ state.bm = Some({})

\* a key with the prefix of the field and less than 4 bytes behind it
IsShortKey(key, tok) ==
    /\ StartsWith(key, SerializePrefix(Account.account_id, Account.collection, tok.field))
    /\ Len(key) < IndexKeyPrefixLen + U32_LEN

\* the scan of a MatchValue token is handed a short key: one lies in its range
MeetsShortKey(tok) ==
    \E key \in index :
        /\ IsShortKey(key, tok)
        /\ With(RangeBounds(Account.account_id, Account.collection, tok.field,
                            tok.value, tok.op),
                LAMBDA b : InRange(key, Serialize(b.begin), Serialize(b.end)))

\* the scan of a MatchValue token run to its end
ScanOf(tok) ==
    ScanRun(ScanStart(index, Account.account_id, Account.collection, tok.field,
                      tok.value, tok.op))

\* C12: a key with the (account, collection, field) prefix that is too short
\* for the 4-byte document id and is handed to the scan makes range_to_bitmap
\* return an error, not None, and with it Store::filter: the key is not
\* passed over, gives no document id, and no ResultSet is returned.
C12_ShortKeyIsAnError ==
    \A i \in resolved :
        (filters[i].t = "MatchValue" /\ MeetsShortKey(filters[i]))
        => /\ ScanReturn(ScanOf(filters[i])) = [ok |-> FALSE, bm |-> None]
           /\ \A key \in ScanOf(filters[i]).hits : ~IsShortKey(key, filters[i])
           /\ IsShortKey(ScanOf(filters[i]).seen[Len(ScanOf(filters[i]).seen)],
                         filters[i])
           /\ pc = "error"
           /\ ~results.some
           /\ calls[Len(calls)] = [call |-> "iterate", at |-> i, ok |-> FALSE]
           /\ \A j \in resolved : j <= i

\* C12 witness: Equal(5) inside an Or met the key prefix|05|05 behind the key
\* of document 2; the evaluation ended in the error, the next leaf untouched
C12_Witness ==
    /\ pc = "error"
    /\ filters = << Or, MatchValue(IndexedField.field, "Equal", << 5 >>),
                    DocumentSet({1}), End >>
    /\ \E key \in index : key \in ShortKeys /\ KeyValue(key \o << 0, 0, 0, 0 >>) = << 5, 5 >>
    /\ Len(ScanOf(filters[2]).seen) = 2
    /\ calls = << [call |-> "iterate", at |-> 2, ok |-> FALSE] >>
    /\ resolved = {2}
    /\ pos = 3

RECURSIVE SoloTrace(_)
\* the evaluation records of an evaluation run alone, between passes, from e on
SoloTrace(e) ==
    {e} \cup
    (IF e.pc = "start"
     THEN SoloTrace(IF e.filters = << >> THEN EmptyFilters(e, "none")
                    ELSE Begin(e.filters))
     ELSE IF e.pc # "loop" THEN {}
     ELSE IF e.pos > Len(e.filters) THEN {Return(e)}
     ELSE SoloTrace(StepToken(e, "none")))

\* C13: two evaluations interleaved at their suspension points over an
\* unchanging store: each passes only through the states of its run alone,
\* and returns the result of its run alone.
C13_ConcurrentEvaluationsIndependent ==
    \A t \in DOMAIN tasks :
        /\ ~tasks[t].pending
              => tasks[t].r.e \in SoloTrace(NewTask(tasks[t].r.e.filters).r.e)
        /\ tasks[t].r.e.pc = "done"
              => tasks[t].r.e.results = Filter(tasks[t].r.e.filters).results

\* C13 witness: one evaluation is suspended inside a Not frame between its
\* leaf lookup and its combine while the other, on another filter list, has
\* fetched its universe and has tokens left; later both have returned
C13_Witness ==
    /\ DOMAIN tasks = Tasks
    /\ tasks[1].pending
    /\ tasks[1].r.e.state.op = "Not"
    /\ tasks[1].r.e.filters = << Not, InBitmap("seen"), End >>
    /\ tasks[2].r.e.filters = << And, InBitmap("seen"), Not, DocumentSet({1}), End, End >>
    /\ tasks[2].r.e.not_fetch
    /\ tasks[2].r.e.pc = "loop"
    /\ tasks[2].r.e.pos <= Len(tasks[2].r.e.filters)

\* C14: Store::filter leaves the store unchanged: no step of an evaluation
\* changes the document_ids bitmap or the index, and a ResultSet exists only
\* once the evaluation has returned, so an evaluation abandoned at a storage
\* call, or one that fails, has changed nothing and published nothing.
C14_StoreUnchanged ==
    /\ [][/\ universe' = universe
          /\ index' = index
          /\ results' # results => pc' = "done"]_vars
    /\ [](results.some => pc = "done")

\* C14 witness: an evaluation failed at its second storage call, its frame
\* holding the result of the first; the store is as it was, nothing returned
C14_Witness ==
    /\ pc = "error"
    /\ calls = << [call |-> "iterate", at |-> 1, ok |-> TRUE],
                  [call |-> "get_bitmap", at |-> 2, ok |-> FALSE] >>
    /\ state.bm = Some({2})
    /\ results = None
    /\ universe = Some(Docs)
    /\ index = FilterIndex

\* C15: when the And short-circuit fires, the skip passes over nested
\* And/Or/Not .. End spans whole: the next token is the End that closes the
\* short-circuited And scope, or the stream is exhausted for the top level.
\* Stated for the first short-circuit of a well-formed stream.
C15_SkipStopsAtOwnEnd ==
    [][(WellFormed(filters) /\ shorts = {} /\ shorts' # {})
        => \A p \in shorts' : pos' = Closing(filters, p + 1, 0)]_vars

\* the next pass takes an End with no frame on the stack
AtUnmatchedEnd ==
    /\ pc = "loop"
    /\ pos <= Len(filters)
    /\ filters[pos] = End
    /\ stack = << >>

\* C16: for a well-formed stream the unmatched-End branch (an End processed
\* while the frame stack is empty, which ends the evaluation) is never taken.
C16_NoUnmatchedEndWhenWellFormed ==
    [][WellFormed(filters) => ~(AtUnmatchedEnd /\ pc' = "done")]_vars

\* C17: while a well-formed stream is processed, after every consumed token
\* the length of the frame stack is the nesting depth of the consumed prefix.
C17_StackDepthIsNestingDepth ==
    (pc = "loop" /\ WellFormed(filters))
    => Len(stack) = OpenDepth(filters, pos - 1)

\* C18: when an End is processed while the frame stack is empty the
\* evaluation stops at once: that step returns the accumulator of the current
\* frame as it stood (the empty bitmap if unset), resolves and combines
\* nothing, issues no storage call, and no step follows a return.
C18_UnmatchedEndStopsEvaluation ==
    [][/\ pc # "done"
       /\ AtUnmatchedEnd
            => /\ pc' = "done"
               /\ results' = Some(UnwrapOrNew(state.bm))
               /\ state' = state
               /\ calls' = calls
               /\ resolved' = resolved
               /\ not_results' = not_results]_vars

\* C18 witness: [DocumentSet({1}), End, InBitmap("seen")] returned {1} at the
\* End, the leaf behind it untouched
C18_Witness ==
    /\ Returned
    /\ filters = << DocumentSet({1}), End, InBitmap("seen") >>
    /\ results = Some({1})
    /\ pos = 3
    /\ resolved = {1}
    /\ calls = << >>

\* the frames of the evaluation, the current one and the suspended ones
Frames == {state} \cup {stack[i] : i \in DOMAIN stack}

\* C19: every value combined into a Not frame is the complement of the result
\* within the universe, also for a DocumentSet with ids outside the universe:
\* the accumulator of a Not frame and the result of a Not scope hold no
\* document id outside the universe.
C19_NotFrameInsideUniverse ==
    /\ \A f \in Frames :
          (f.op = "Not" /\ f.bm.some /\ pc \in {"loop", "done"})
          => f.bm.v \subseteq Universe
    /\ (Returned /\ IsNotOfLeaves(filters) /\ Len(filters) = 3)
          => results.v = Universe \ LeafSet(filters[2])

\* C20: in an And frame a leaf that resolved to None makes the accumulator
\* the empty bitmap, whether it was unset or held a bitmap, and the
\* short-circuit fires in the same pass: the tokens up to the next End are
\* consumed unresolved.
C20_NoneLeafEmptiesAndFrame ==
    [][(/\ pc = "loop"
        /\ pos <= Len(filters)
        /\ state.op = "And"
        /\ ResolvesToNone(filters[pos])
        /\ pc' = "loop")
       => /\ state' = [op |-> "And", bm |-> Some({})]
          /\ shorts' = shorts \cup {pos}
          /\ resolved' = resolved \cup {pos}
          /\ pos' > pos
          /\ pos' <= Len(filters) => filters[pos'] = End
          /\ \A q \in (pos + 1)..(pos' - 1) : filters[q] # End]_vars

\* C20 witness: a None leaf emptied an And accumulator that held {1}, and the
\* leaf behind it was skipped
C20_Witness ==
    /\ pc = "loop"
    /\ filters = << DocumentSet({1}), InBitmap("absent"), DocumentSet({1, 2}) >>
    /\ state = [op |-> "And", bm |-> Some({})]
    /\ shorts = {2}
    /\ resolved = {1, 2}
    /\ pos = 4

\* the next pass takes the End of a scope whose accumulator was never set,
\* with a parent frame to return to
AtEndOfUnsetScope ==
    /\ pc = "loop"
    /\ pos <= Len(filters)
    /\ filters[pos] = End
    /\ stack # << >>
    /\ ~state.bm.some

\* C21: closing a scope whose accumulator was never set combines into the
\* parent frame what an empty-bitmap leaf result would combine, for every
\* kind of parent and whether the parent's accumulator is set or not.
C21_UnsetScopeClosesAsEmpty ==
    [][(AtEndOfUnsetScope /\ pc' = "loop")
       => state'.bm = Combined(stack[Len(stack)].op, stack[Len(stack)].bm,
                               Some({}), not_mask')]_vars

\* the next pass resolves a leaf inside an Or frame whose accumulator is unset
AtLeafInUnsetOr ==
    /\ AtToken(LeafKinds)
    /\ state = [op |-> "Or", bm |-> None]

\* C22: in an Or frame whose accumulator is unset, combining a leaf that
\* resolved to None leaves the accumulator unset; the accumulator of an Or
\* frame becomes set only in a pass whose leaf result is present.
C22_OrStaysUnsetOnNone ==
    [][(AtLeafInUnsetOr /\ pc' = "loop")
       => /\ ResolvesToNone(filters[pos]) => state' = [op |-> "Or", bm |-> None]
          /\ state'.bm.some => ~ResolvesToNone(filters[pos])]_vars

\* the (begin, end) keys the scan of the current state was opened with
ScanBounds ==
    RangeBounds(scan.account_id, scan.collection, scan.field,
                scan.match_value, scan.op)

\* C23: for every field identifier, 255 included, the GreaterThan and
\* GreaterEqualThan scans build an end key whose field is field + 1, without
\* wrapping or overflowing: the call does not panic, the end key sorts
\* strictly after the begin key, and the range holds every key of the target
\* field from the begin key on.
C23_EndKeyIsNextField ==
    scan.op \in {"GreaterThan", "GreaterEqualThan"}
    => /\ pc # "panic"
       /\ pc \in {"scanning", "ranged", "error"}
          => /\ ScanBounds.end.field = scan.field + 1
             /\ LexLess(Serialize(ScanBounds.begin), Serialize(ScanBounds.end))
             /\ \A k \in index :
                   (StartsWith(k, ScanPrefix)
                    /\ LexLessEq(Serialize(ScanBounds.begin), k))
                   => InRange(k, Serialize(ScanBounds.begin),
                                 Serialize(ScanBounds.end))

\* the next pass reaches the combine unless a storage call fails: its token
\* is a leaf, or an End with a frame to return to
AtCombine ==
    /\ pc = "loop"
    /\ pos <= Len(filters)
    /\ \/ filters[pos].t \in LeafKinds
       \/ filters[pos] = End /\ stack # << >>

\* C24: after every combine the accumulator of the current frame is set, and
\* the operator of the current frame and of every frame on the stack is one
\* of And, Or, Not; the unwrap of the short-circuit test and the
\* unreachable!() arm of the combine never fail, for any token stream.
C24_CombineLeavesAccumulatorSet ==
    /\ [][(AtCombine /\ pc' = "loop") => state'.bm.some]_vars
    /\ [](/\ pc # "panic"
          /\ state.op \in ScopeOps
          /\ \A i \in 1..Len(stack) : stack[i].op \in ScopeOps)

\* C24 witness: a leaf without postings was combined into a Not frame whose
\* accumulator was unset, which now holds the universe
C24_Witness ==
    /\ pc = "loop"
    /\ filters = << Not, InBitmap("absent") >>
    /\ universe = Some({1, 2, 3})
    /\ pos = 3
    /\ resolved = {2}
    /\ state = [op |-> "Not", bm |-> Some({1, 2, 3})]
    /\ stack = << NewState("And") >>

\* the stream is exhausted and scopes are still open
ExhaustedWithOpenScopes ==
    /\ pc = "loop"
    /\ pos > Len(filters)
    /\ stack # << >>

\* C25: when the stream is exhausted while scopes are still open, filter
\* returns the accumulator of the innermost open frame, the empty bitmap if
\* it is unset; the frames on the stack, the initial And frame and what it
\* accumulated included, are left as they are and never combined.
C25_ExhaustedStreamReturnsInnermost ==
    [][ExhaustedWithOpenScopes
       => /\ pc' = "done"
          /\ results' = Some(IF state.bm.some THEN state.bm.v ELSE {})
          /\ state' = state
          /\ stack' = stack]_vars

\* C25 witness: [DocumentSet({1,2}), Not, DocumentSet({1})] returned the
\* accumulator of the open Not frame, {2,3}; the initial And frame holding
\* {1,2} is still on the stack
C25_Witness ==
    /\ Returned
    /\ filters = << DocumentSet({1, 2}), Not, DocumentSet({1}) >>
    /\ universe = Some({1, 2, 3})
    /\ state = [op |-> "Not", bm |-> Some({2, 3})]
    /\ stack = << [op |-> "And", bm |-> Some({1, 2})] >>
    /\ results = Some({2, 3})

============================================================================
